---- MODULE Spec2Model ----
(***************************************************************************)
(* A model of rs-embedded-fish (src/src/main.rs): the sprite decoder, the  *)
(* per-fish physics, the compositor, the pixel stream and the run loop.    *)
(*                                                                         *)
(* Every function of the program is an operator below, computed the way    *)
(* the code computes it.  The pseudo-random generator (rand_pcg::Pcg32, an *)
(* external crate) is an oracle: a function that draws from it yields the  *)
(* SET of its possible outcomes, each with the log of the draws it made.   *)
(* A panic (unwrap, slice or index out of range, arithmetic overflow when  *)
(* the build checks it) is an explicit outcome, never an undefined value.  *)
(***************************************************************************)
EXTENDS Integers, Sequences, FiniteSets, TLC

VARIABLES
    pc,        \* where main() is: "clear", "new", "iter", "draw", "swim", "halt"
    lcd,       \* the display's frame memory: [x, y] -> raw RGB565 word
    fish,      \* FishTank.fish: index 0..n-1 -> Fish
    rng,       \* FishTank.rng: the generator's position in its stream
    position,  \* TankIterator.position, the cursor of the live pixel stream
    probe      \* input and result of the function a probing specification applies

vars == <<pc, lcd, fish, rng, position, probe>>

----------------------------------------------------------------------------
(* Program constants                                                       *)

\* main.rs:22 sets 10.  The tank specifications run two fish.
NUM_FISH == 2

\* main.rs:22 again: the run loop of Spec is scaled to one fish, the largest
\* tank whose every reachable display TLC can enumerate; tanks of NUM_FISH
\* fish are covered by the tank specifications.
LOOP_FISH == 1

ANIMATION_SPEED == 2
BACKGROUND == 31
FUDGE_FACTOR == 1
NUM_FRAMES == 3

\* main.rs:39 sets 10 (the number of sprites baked into fish.raw); the
\* fixture below holds two.
NUM_SPRITES == 2
TRANSPARENT == 57005

U16 == 65536
I32_MAX == 2147483647

\* lcd.size(): the display's size in pixels (160 x 80 on the board).
ScreenW == 5
ScreenH == 5

\* The period of the generator's stream (2^64 in Pcg32).
RngPeriod == 2

Screen == [width |-> ScreenW, height |-> ScreenH]

\* fish.raw is not among the sources; this is a fixture in its format
\* (make_sprite, main.rs:115-134), as bytes.  Two sprites: sprite 0 is 2x1,
\* sprite 1 is 2x2; three frames each; 0xDEAD (173, 222) is transparent.
SPRITE_DATA ==
    <<  1,   2,    8, 0,   10, 0,   12, 0,      \* header 0: 0x0201, 8, 10, 12
        2,   2,   14, 0,   18, 0,   22, 0,      \* header 1: 0x0202, 14, 18, 22
        0, 248,  224,   7,                      \* sprite 0 frame 0: F800 07E0
        0, 248,  173, 222,                      \* sprite 0 frame 1: F800 DEAD
      224, 255,  224,   7,                      \* sprite 0 frame 2: FFE0 07E0
        0, 248,  224,   7,  224, 255,  173, 222, \* sprite 1 frame 0: F800 07E0 / FFE0 DEAD
      173, 222,  224,   7,    0, 248,  224, 255, \* sprite 1 frame 1: DEAD 07E0 / F800 FFE0
      224,   7,    0, 248,  173, 222,  224, 255 >> \* sprite 1 frame 2: 07E0 F800 / DEAD FFE0

----------------------------------------------------------------------------
(* Values                                                                  *)

Point(x, y) == [x |-> x, y |-> y]
Size(w, h) == [width |-> w, height |-> h]

OutOfRange == [tag |-> "OutOfRange", c |-> 0]
Transparent == [tag |-> "Transparent", c |-> 0]
Opaque(c) == [tag |-> "Opaque", c |-> c]
\* not a PointValue of the program: the sample panicked (index out of range)
PanicValue == [tag |-> "Panic", c |-> 0]

\* cvt: u32 -> i32 by try_into().unwrap().  Defined on the values that fit an
\* i32 only: on any other the unwrap panics, and evaluation stops.
cvt(u) == CASE u >= 0 /\ u <= I32_MAX -> u

\* rgb565: Rgb565::from(RawU16::new(packed)) keeps the 16 bits of the word.
rgb565(packed) == packed % U16

\* SPRITE_DATA.as_slice_of::<u16>(): the bytes as little-endian words; an Err
\* (unwrap panics) when the length is odd.
as_slice_of_u16_ok(bytes) == Len(bytes) % 2 = 0
as_slice_of_u16(bytes) ==
    [i \in 1..(Len(bytes) \div 2) |-> bytes[2 * i - 1] + 256 * bytes[2 * i]]

----------------------------------------------------------------------------
(* Sprite                                                                  *)

\* Sprite::get_point reading the frame column-major (x * height + y).
Sprite_get_point_colmajor(sprite, pt, animation) ==
    LET x == pt.x - FUDGE_FACTOR
        y == pt.y - FUDGE_FACTOR
    IN  IF x < 0 \/ y < 0 \/ x >= cvt(sprite.size.width)
                          \/ y >= cvt(sprite.size.height)
        THEN Transparent
        ELSE LET idx == y + x * sprite.size.height
             IN  IF animation >= NUM_FRAMES THEN PanicValue
                 ELSE LET frame == sprite.frames[animation + 1]
                      IN  IF idx >= Len(frame) THEN PanicValue
                          ELSE LET c == frame[idx + 1]
                               IN  IF c = TRANSPARENT THEN Transparent
                                   ELSE Opaque(c)

\* Sprite::get_point.  animation is the frame number.
Sprite_get_point(sprite, pt, animation) ==
    LET x == pt.x - FUDGE_FACTOR
        y == pt.y - FUDGE_FACTOR
    IN  IF x < 0 \/ y < 0 \/ x >= cvt(sprite.size.width)
                          \/ y >= cvt(sprite.size.height)
        THEN Transparent
        ELSE LET idx == x + y * sprite.size.width
             IN  IF animation >= NUM_FRAMES THEN PanicValue
                 ELSE LET frame == sprite.frames[animation + 1]
                      IN  IF idx >= Len(frame) THEN PanicValue
                          ELSE LET c == frame[idx + 1]
                               IN  IF c = TRANSPARENT THEN Transparent
                                   ELSE Opaque(c)

NoSprite == [ok |-> FALSE, size |-> Size(0, 0), frames |-> <<>>]

\* A frame slice cut short at the end of the data instead of failing, and
\* empty when the wrapped end lies before the start.
FrameSliceClamped(sprite_data, slot, num_words, checks) ==
    IF slot >= Len(sprite_data) THEN [ok |-> FALSE, words |-> <<>>]
    ELSE LET frame_index == sprite_data[slot + 1]
             sum == frame_index + num_words
             end == sum % U16
             stop == IF end > Len(sprite_data) THEN Len(sprite_data) ELSE end
         IN  IF sum >= U16 /\ checks
             THEN [ok |-> FALSE, words |-> <<>>]
             ELSE [ok |-> TRUE,
                   words |-> SubSeq(sprite_data, frame_index + 1, stop)]

\* One pass of make_sprite's loop: &sprite_data[frame_index..frame_index+num_words]
\* in u16 arithmetic.  checks: the build panics on arithmetic overflow (debug);
\* otherwise the sum wraps (release).
FrameSlice(sprite_data, slot, num_words, checks) ==
    IF slot >= Len(sprite_data) THEN [ok |-> FALSE, words |-> <<>>]
    ELSE LET frame_index == sprite_data[slot + 1]
             sum == frame_index + num_words
             end == sum % U16
         IN  IF (sum >= U16 /\ checks) \/ frame_index > end
                                       \/ end > Len(sprite_data)
             THEN [ok |-> FALSE, words |-> <<>>]
             ELSE [ok |-> TRUE,
                   words |-> SubSeq(sprite_data, frame_index + 1, end)]

\* Sprite::make_sprite.  ok is FALSE when it panics.
make_sprite(sprite_num, sprite_data, checks) ==
    LET header_index == 4 * sprite_num
    IN  IF header_index >= Len(sprite_data) THEN NoSprite
        ELSE LET width_height == sprite_data[header_index + 1]
                 width == width_height \div 256
                 height == width_height % 256
                 prod == width * height
                 num_words == prod % U16
                 fr == [f \in 1..NUM_FRAMES |->
                          FrameSlice(sprite_data, header_index + f, num_words, checks)]
             IN  IF (prod >= U16 /\ checks) \/ \E f \in 1..NUM_FRAMES : ~fr[f].ok
                 THEN NoSprite
                 ELSE [ok |-> TRUE, size |-> Size(width, height),
                       frames |-> [f \in 1..NUM_FRAMES |-> fr[f].words]]

----------------------------------------------------------------------------
(* The generator.  A function that is handed the generator (rng: &mut T)   *)
(* takes here the stream it will read, as far as that stream is known: a   *)
(* sequence of draws <<call, a, b, value>> (the call site, its two         *)
(* arguments, what it returned; a bool is 1 or 0).  A call that finds its  *)
(* own draw at its place in the stream returns that value; where the       *)
(* stream is not known (past its end, <<>> for a stream not known at all)  *)
(* it may return any value of its range.  The function yields the set of   *)
(* its outcomes, each with the draws it made, in order.                    *)

\* rng.gen_range(lo, hi): the values it can return; it panics when lo >= hi.
gen_range(lo, hi) == lo..(hi - 1)
\* rng.gen::<bool>() and rng.gen_ratio(n, d) with 0 < n < d: either outcome.
gen_bool == {0, 1}

\* The values the k-th call from here can return, being `call` with
\* arguments a, b and range `values`.
Gen(call, a, b, values, stream, k) ==
    IF k <= Len(stream) /\ stream[k][1] = call /\ stream[k][2] = a /\ stream[k][3] = b
    THEN {stream[k][4]} \cap values
    ELSE values

\* The stream after its first n draws.
Rest(stream, n) == SubSeq(stream, n + 1, Len(stream))

Outcome(f, draws, panic) == [fish |-> f, draws |-> draws, panic |-> panic]

\* The generator after n more draws.
Advance(r, n) == (r + n) % RngPeriod

----------------------------------------------------------------------------
(* Fish                                                                    *)

\* Fish::get_point mirroring a Left-facing fish about the sprite's width
\* instead of the bounding box's.
Fish_get_point_mirror_sprite(f, pt) ==
    IF pt.x < f.upper_left.x \/ pt.y < f.upper_left.y
         \/ pt.x >= f.upper_left.x + cvt(f.size.width)
         \/ pt.y >= f.upper_left.y + cvt(f.size.height)
    THEN OutOfRange
    ELSE LET x0 == pt.x - f.upper_left.x
             y == pt.y - f.upper_left.y
             x == IF f.direction = "Left"
                  THEN cvt(f.fish_type.size.width) - (x0 + 1) ELSE x0
         IN  Sprite_get_point(f.fish_type, Point(x, y),
                              f.animation \div ANIMATION_SPEED)

\* Fish::get_point with a bounding box one column and one row too large.
Fish_get_point_wide(f, pt) ==
    IF pt.x < f.upper_left.x \/ pt.y < f.upper_left.y
         \/ pt.x > f.upper_left.x + cvt(f.size.width)
         \/ pt.y > f.upper_left.y + cvt(f.size.height)
    THEN OutOfRange
    ELSE LET x0 == pt.x - f.upper_left.x
             y == pt.y - f.upper_left.y
             x == IF f.direction = "Left" THEN cvt(f.size.width) - (x0 + 1) ELSE x0
         IN  Sprite_get_point(f.fish_type, Point(x, y),
                              f.animation \div ANIMATION_SPEED)

\* Fish::get_point
Fish_get_point(f, pt) ==
    IF pt.x < f.upper_left.x \/ pt.y < f.upper_left.y
         \/ pt.x >= f.upper_left.x + cvt(f.size.width)
         \/ pt.y >= f.upper_left.y + cvt(f.size.height)
    THEN OutOfRange
    ELSE LET x0 == pt.x - f.upper_left.x
             y == pt.y - f.upper_left.y
             x == IF f.direction = "Left" THEN cvt(f.size.width) - (x0 + 1) ELSE x0
         IN  Sprite_get_point(f.fish_type, Point(x, y),
                              f.animation \div ANIMATION_SPEED)

\* An overlap test that does not count a box that only touches an edge.
Fish_on_screen_strict(f, screen) ==
    /\ f.upper_left.y < cvt(screen.height)
    /\ f.upper_left.y + cvt(f.size.height) > 0
    /\ f.upper_left.x < cvt(screen.width)
    /\ f.upper_left.x + cvt(f.size.width) > 0

\* Fish::on_screen
Fish_on_screen(f, screen) ==
    /\ f.upper_left.y <= cvt(screen.height)
    /\ f.upper_left.y + cvt(f.size.height) >= 0
    /\ f.upper_left.x <= cvt(screen.width)
    /\ f.upper_left.x + cvt(f.size.width) >= 0

\* Fish::randomize taking the phase from a generator of its own (as
\* thread_rng() would give) instead of the tank's: that draw is not one of
\* the tank's stream.
Fish_randomize_own_rng(f, screen, stream) ==
    LET hi == NUM_FRAMES * ANIMATION_SPEED
        d == screen.height - f.size.height
    IN  IF d <= 0 THEN {Outcome(f, <<>>, TRUE)}
        ELSE { Outcome([f EXCEPT !.animation = a,
                                 !.direction = IF l = 1 THEN "Left" ELSE "Right",
                                 !.upper_left =
                                     Point(IF l = 1 THEN cvt(screen.width)
                                                    ELSE -cvt(f.size.width),
                                           cvt(y))],
                       << <<"dir", 0, 2, l>>, <<"y", 0, d, y>> >>, FALSE)
               : <<a, l, y>> \in gen_range(0, hi)
                                 \X Gen("dir", 0, 2, gen_bool, stream, 1)
                                 \X Gen("y", 0, d, gen_range(0, d), stream, 2) }

\* Fish::randomize putting a Left-facing fish one pixel inside the right
\* edge (screen.width - 1).
Fish_randomize_on_edge(f, screen, stream) ==
    LET hi == NUM_FRAMES * ANIMATION_SPEED
        d == screen.height - f.size.height
    IN  IF d <= 0 THEN {Outcome(f, <<>>, TRUE)}
        ELSE { Outcome([f EXCEPT !.animation = a,
                                 !.direction = IF l = 1 THEN "Left" ELSE "Right",
                                 !.upper_left =
                                     Point(IF l = 1 THEN cvt(screen.width) - 1
                                                    ELSE -cvt(f.size.width),
                                           cvt(y))],
                       << <<"phase", 0, hi, a>>, <<"dir", 0, 2, l>>, <<"y", 0, d, y>> >>,
                       FALSE)
               : <<a, l, y>> \in Gen("phase", 0, hi, gen_range(0, hi), stream, 1)
                                 \X Gen("dir", 0, 2, gen_bool, stream, 2)
                                 \X Gen("y", 0, d, gen_range(0, d), stream, 3) }

\* Fish::randomize drawing the phase from a range one too long: the phase
\* NUM_FRAMES * ANIMATION_SPEED itself can come out.
Fish_randomize_phase_over(f, screen, stream) ==
    LET hi == NUM_FRAMES * ANIMATION_SPEED
        d == screen.height - f.size.height
    IN  IF d <= 0 THEN {Outcome(f, <<>>, TRUE)}
        ELSE { Outcome([f EXCEPT !.animation = a,
                                 !.direction = IF l = 1 THEN "Left" ELSE "Right",
                                 !.upper_left =
                                     Point(IF l = 1 THEN cvt(screen.width)
                                                    ELSE -cvt(f.size.width),
                                           cvt(y))],
                       << <<"phase", 0, hi, a>>, <<"dir", 0, 2, l>>, <<"y", 0, d, y>> >>,
                       FALSE)
               : <<a, l, y>> \in Gen("phase", 0, hi, gen_range(0, hi + 1), stream, 1)
                                 \X Gen("dir", 0, 2, gen_bool, stream, 2)
                                 \X Gen("y", 0, d, gen_range(0, d), stream, 3) }

\* Fish::randomize: the outcomes of its three draws.  screen.height -
\* size.height is a u32 difference handed to gen_range: when it is not
\* positive the call is fatal in the checked build (underflow, or an empty
\* range); the model's screens are always taller than its fish.
Fish_randomize(f, screen, stream) ==
    LET hi == NUM_FRAMES * ANIMATION_SPEED
        d == screen.height - f.size.height
    IN  IF d <= 0 THEN {Outcome(f, <<>>, TRUE)}
        ELSE { Outcome([f EXCEPT !.animation = a,
                                 !.direction = IF l = 1 THEN "Left" ELSE "Right",
                                 !.upper_left =
                                     Point(IF l = 1 THEN cvt(screen.width)
                                                    ELSE -cvt(f.size.width),
                                           cvt(y))],
                       << <<"phase", 0, hi, a>>, <<"dir", 0, 2, l>>, <<"y", 0, d, y>> >>,
                       FALSE)
               : <<a, l, y>> \in Gen("phase", 0, hi, gen_range(0, hi), stream, 1)
                                 \X Gen("dir", 0, 2, gen_bool, stream, 2)
                                 \X Gen("y", 0, d, gen_range(0, d), stream, 3) }

\* Fish::randomize_x
Fish_randomize_x(f, screen, stream) ==
    LET d == screen.width - f.size.width
    IN  IF d <= 0 THEN {Outcome(f, <<>>, TRUE)}
        ELSE { Outcome([f EXCEPT !.upper_left.x = cvt(x)], << <<"x", 0, d, x>> >>, FALSE)
               : x \in Gen("x", 0, d, gen_range(0, d), stream, 1) }

\* Fish::swim's position and phase update holding the fish at the screen's
\* edge: a step that would take the box's left edge out of [-width,
\* screen.width] is not made.
Fish_moved_clamped(f, step, jitter, dy) ==
    LET x0 == IF step = 1
              THEN f.upper_left.x + (IF f.direction = "Left" THEN -1 ELSE 1)
              ELSE f.upper_left.x
        x1 == IF x0 < -f.size.width \/ x0 > ScreenW THEN f.upper_left.x ELSE x0
        y1 == IF jitter = 1 THEN f.upper_left.y + dy ELSE f.upper_left.y
        a1 == f.animation + 1
    IN  [f EXCEPT !.upper_left = Point(x1, y1),
                  !.animation = IF a1 >= NUM_FRAMES * ANIMATION_SPEED THEN 0 ELSE a1]

\* Fish::swim's position and phase update with the signs of the step
\* exchanged: the fish backs away from where it faces.
Fish_moved_backward(f, step, jitter, dy) ==
    LET x1 == IF step = 1
              THEN f.upper_left.x + (IF f.direction = "Left" THEN 1 ELSE -1)
              ELSE f.upper_left.x
        y1 == IF jitter = 1 THEN f.upper_left.y + dy ELSE f.upper_left.y
        a1 == f.animation + 1
    IN  [f EXCEPT !.upper_left = Point(x1, y1),
                  !.animation = IF a1 >= NUM_FRAMES * ANIMATION_SPEED THEN 0 ELSE a1]

\* Fish::swim's position and phase update wrapping the phase one tick late
\* (> for >=).
Fish_moved_wrap_late(f, step, jitter, dy) ==
    LET x1 == IF step = 1
              THEN f.upper_left.x + (IF f.direction = "Left" THEN -1 ELSE 1)
              ELSE f.upper_left.x
        y1 == IF jitter = 1 THEN f.upper_left.y + dy ELSE f.upper_left.y
        a1 == f.animation + 1
    IN  [f EXCEPT !.upper_left = Point(x1, y1),
                  !.animation = IF a1 > NUM_FRAMES * ANIMATION_SPEED THEN 0 ELSE a1]

\* Fish::swim up to the on_screen test (main.rs:183-198): the fish after the
\* position and phase update, given what the generator returned.
Fish_moved(f, step, jitter, dy) ==
    LET x1 == IF step = 1
              THEN f.upper_left.x + (IF f.direction = "Left" THEN -1 ELSE 1)
              ELSE f.upper_left.x
        y1 == IF jitter = 1 THEN f.upper_left.y + dy ELSE f.upper_left.y
        a1 == f.animation + 1
    IN  [f EXCEPT !.upper_left = Point(x1, y1),
                  !.animation = IF a1 >= NUM_FRAMES * ANIMATION_SPEED THEN 0 ELSE a1]

\* The draws of Fish::swim before its on_screen test: <<step, jitter, dy>>,
\* dy being 0 when no jitter was drawn.
SwimDraws(stream) ==
    UNION { IF jitter = 0 THEN {<<step, 0, 0>>}
            ELSE {<<step, 1, dy>> : dy \in Gen("dy", -1, 2, gen_range(-1, 2), stream, 3)}
            : <<step, jitter>> \in Gen("step", 3, 4, gen_bool, stream, 1)
                                   \X Gen("jitter", 1, 8, gen_bool, stream, 2) }

\* Fish::swim testing on_screen before the position update instead of after
\* it.
Fish_swim_stale(f, screen, stream) ==
    UNION {
        LET m == Fish_moved(f, t[1], t[2], t[3])
            d == << <<"step", 3, 4, t[1]>>, <<"jitter", 1, 8, t[2]>> >>
                 \o (IF t[2] = 1 THEN << <<"dy", -1, 2, t[3]>> >> ELSE <<>>)
        IN  IF Fish_on_screen(f, screen)
            THEN {Outcome(m, d, FALSE)}
            ELSE {Outcome(o.fish, d \o o.draws, o.panic)
                  : o \in Fish_randomize(m, screen, Rest(stream, Len(d)))}
        : t \in SwimDraws(stream) }

\* Fish::swim: one tick.
Fish_swim(f, screen, stream) ==
    UNION {
        LET m == Fish_moved(f, t[1], t[2], t[3])
            d == << <<"step", 3, 4, t[1]>>, <<"jitter", 1, 8, t[2]>> >>
                 \o (IF t[2] = 1 THEN << <<"dy", -1, 2, t[3]>> >> ELSE <<>>)
        IN  IF Fish_on_screen(m, screen)
            THEN {Outcome(m, d, FALSE)}
            ELSE {Outcome(o.fish, d \o o.draws, o.panic)
                  : o \in Fish_randomize(m, screen, Rest(stream, Len(d)))}
        : t \in SwimDraws(stream) }

\* Fish::new
Fish_new(sprite) ==
    LET ff2 == FUDGE_FACTOR * 2
    IN  [fish_type  |-> [size |-> sprite.size, frames |-> sprite.frames],
         upper_left |-> Point(0, 0),
         size       |-> Size(sprite.size.width + ff2, sprite.size.height + ff2),
         direction  |-> "Right",
         animation  |-> 0]

----------------------------------------------------------------------------
(* FishTank                                                                *)

\* FishTank::swim advancing the fish from the last index down to the first.
RECURSIVE SwimDownFrom(_, _, _, _)
SwimDownFrom(i, fs, size, stream) ==
    IF i \notin DOMAIN fs THEN {Outcome(fs, <<>>, FALSE)}
    ELSE UNION {
            IF o.panic THEN {Outcome([fs EXCEPT ![i] = o.fish], o.draws, TRUE)}
            ELSE {Outcome(r.fish, o.draws \o r.draws, r.panic)
                  : r \in SwimDownFrom(i - 1, [fs EXCEPT ![i] = o.fish], size,
                                       Rest(stream, Len(o.draws)))}
            : o \in Fish_swim(fs[i], size, stream) }
FishTank_swim_reversed(fs, size, stream) ==
    SwimDownFrom(Cardinality(DOMAIN fs) - 1, fs, size, stream)

\* FishTank::swim from fish i on: the fish are advanced in index order, each
\* drawing from the one generator after the fish before it.
RECURSIVE SwimFrom(_, _, _, _)
SwimFrom(i, fs, size, stream) ==
    IF i \notin DOMAIN fs THEN {Outcome(fs, <<>>, FALSE)}
    ELSE UNION {
            IF o.panic THEN {Outcome([fs EXCEPT ![i] = o.fish], o.draws, TRUE)}
            ELSE {Outcome(r.fish, o.draws \o r.draws, r.panic)
                  : r \in SwimFrom(i + 1, [fs EXCEPT ![i] = o.fish], size,
                                   Rest(stream, Len(o.draws)))}
            : o \in Fish_swim(fs[i], size, stream) }

\* FishTank::swim
FishTank_swim(fs, size, stream) == SwimFrom(0, fs, size, stream)

\* The loop body without the call of randomize_x: the fish is left where
\* randomize put it.
NewFish_no_randomize_x(i, size, sprite_data, checks, stream) ==
    LET sprite == make_sprite(i % NUM_SPRITES, sprite_data, checks)
    IN  IF ~sprite.ok THEN {Outcome(Fish_new(sprite), <<>>, TRUE)}
        ELSE Fish_randomize(Fish_new(sprite), size, stream)

\* The body of FishTank::new's loop for fish i (main.rs:229-232).
NewFish(i, size, sprite_data, checks, stream) ==
    LET sprite == make_sprite(i % NUM_SPRITES, sprite_data, checks)
    IN  IF ~sprite.ok THEN {Outcome(Fish_new(sprite), <<>>, TRUE)}
        ELSE UNION {
                IF o.panic THEN {o}
                ELSE {Outcome(p.fish, o.draws \o p.draws, p.panic)
                      : p \in Fish_randomize_x(o.fish, size, Rest(stream, Len(o.draws)))}
                : o \in Fish_randomize(Fish_new(sprite), size, stream) }

RECURSIVE NewFrom(_, _, _, _, _, _)
NewFrom(i, fs, size, sprite_data, checks, stream) ==
    IF i \notin DOMAIN fs THEN {Outcome(fs, <<>>, FALSE)}
    ELSE UNION {
            IF o.panic THEN {Outcome([fs EXCEPT ![i] = o.fish], o.draws, TRUE)}
            ELSE {Outcome(r.fish, o.draws \o r.draws, r.panic)
                  : r \in NewFrom(i + 1, [fs EXCEPT ![i] = o.fish], size,
                                  sprite_data, checks, Rest(stream, Len(o.draws)))}
            : o \in NewFish(i, size, sprite_data, checks, stream) }

\* FishTank::new for a tank of n fish (NUM_FISH in the program); stream is
\* what the generator seeded with `seed` yields.
FishTank_new(n, screen_size, bytes, checks, stream) ==
    IF ~as_slice_of_u16_ok(bytes) THEN {Outcome(<<>>, <<>>, TRUE)}
    ELSE LET sprite_data == as_slice_of_u16(bytes)
             dummy_sprite == make_sprite(0, sprite_data, checks)
         IN  IF ~dummy_sprite.ok THEN {Outcome(<<>>, <<>>, TRUE)}
             ELSE NewFrom(0, [i \in 0..(n - 1) |-> Fish_new(dummy_sprite)],
                          screen_size, sprite_data, checks, stream)

\* A compositor without the early return: every fish's sample overwrites
\* ret, so the last fish in range decides.
RECURSIVE GetFromLast(_, _, _, _)
GetFromLast(i, ret, fs, pt) ==
    IF i \notin DOMAIN fs THEN ret
    ELSE LET v == Fish_get_point(fs[i], pt)
         IN  CASE v.tag = "OutOfRange" -> GetFromLast(i + 1, ret, fs, pt)
               [] OTHER -> GetFromLast(i + 1, v, fs, pt)

\* A compositor whose ret is overwritten by an OutOfRange sample too.
RECURSIVE GetFromOverwrite(_, _, _, _)
GetFromOverwrite(i, ret, fs, pt) ==
    IF i \notin DOMAIN fs THEN ret
    ELSE LET v == Fish_get_point(fs[i], pt)
         IN  CASE v.tag = "Opaque" -> v
               [] OTHER -> GetFromOverwrite(i + 1, v, fs, pt)

\* FishTank::get_point from fish i on, ret being the loop's variable.
RECURSIVE GetFrom(_, _, _, _)
GetFrom(i, ret, fs, pt) ==
    IF i \notin DOMAIN fs THEN ret
    ELSE LET v == Fish_get_point(fs[i], pt)
         IN  CASE v.tag = "Opaque" -> v
               [] v.tag = "Transparent" -> GetFrom(i + 1, Transparent, fs, pt)
               [] v.tag = "OutOfRange" -> GetFrom(i + 1, ret, fs, pt)
               [] OTHER -> v

\* FishTank::get_point
FishTank_get_point(fs, pt) == GetFrom(0, OutOfRange, fs, pt)

----------------------------------------------------------------------------
(* TankIterator                                                            *)

\* TankIterator::new
TankIterator_new == Point(0, 0)

\* A stream that emits the opaque pixels only: a transparent sample is passed
\* over like one out of range, so nothing is erased.
RECURSIVE NextOpaqueOnly(_, _, _)
NextOpaqueOnly(fs, size, pos) ==
    IF pos.y >= cvt(size.height)
    THEN [some |-> FALSE, pt |-> pos, color |-> 0, position |-> pos, panic |-> FALSE]
    ELSE LET pv == FishTank_get_point(fs, pos)
             x1 == pos.x + 1
             npos == IF x1 >= cvt(size.width) THEN Point(0, pos.y + 1)
                                              ELSE Point(x1, pos.y)
         IN  IF pv.tag = "Opaque"
             THEN [some |-> TRUE, pt |-> pos, color |-> rgb565(pv.c),
                   position |-> npos, panic |-> FALSE]
             ELSE NextOpaqueOnly(fs, size, npos)

\* A stream that walks the screen column by column: the cursor steps down and
\* wraps to the top of the next column, and the stream ends past the last
\* column.
RECURSIVE NextColumnMajor(_, _, _)
NextColumnMajor(fs, size, pos) ==
    IF pos.x >= cvt(size.width)
    THEN [some |-> FALSE, pt |-> pos, color |-> 0, position |-> pos, panic |-> FALSE]
    ELSE LET pv == FishTank_get_point(fs, pos)
             y1 == pos.y + 1
             npos == IF y1 >= cvt(size.height) THEN Point(pos.x + 1, 0)
                                               ELSE Point(pos.x, y1)
         IN  CASE pv.tag = "OutOfRange" -> NextColumnMajor(fs, size, npos)
               [] pv.tag = "Transparent" ->
                    [some |-> TRUE, pt |-> pos, color |-> rgb565(BACKGROUND),
                     position |-> npos, panic |-> FALSE]
               [] pv.tag = "Opaque" ->
                    [some |-> TRUE, pt |-> pos, color |-> rgb565(pv.c),
                     position |-> npos, panic |-> FALSE]
               [] OTHER ->
                    [some |-> FALSE, pt |-> pos, color |-> 0, position |-> pos,
                     panic |-> TRUE]

\* TankIterator::next: the item it returns (some = FALSE: None) and the
\* cursor it leaves.
RECURSIVE TankIterator_next(_, _, _)
TankIterator_next(fs, size, pos) ==
    IF pos.y >= cvt(size.height)
    THEN [some |-> FALSE, pt |-> pos, color |-> 0, position |-> pos, panic |-> FALSE]
    ELSE LET pv == FishTank_get_point(fs, pos)
             x1 == pos.x + 1
             npos == IF x1 >= cvt(size.width) THEN Point(0, pos.y + 1)
                                              ELSE Point(x1, pos.y)
         IN  CASE pv.tag = "OutOfRange" -> TankIterator_next(fs, size, npos)
               [] pv.tag = "Transparent" ->
                    [some |-> TRUE, pt |-> pos, color |-> rgb565(BACKGROUND),
                     position |-> npos, panic |-> FALSE]
               [] pv.tag = "Opaque" ->
                    [some |-> TRUE, pt |-> pos, color |-> rgb565(pv.c),
                     position |-> npos, panic |-> FALSE]
               [] OTHER ->
                    [some |-> FALSE, pt |-> pos, color |-> 0, position |-> pos,
                     panic |-> TRUE]

\* The pixels one stream yields from cursor pos until it ends, in order.
RECURSIVE StreamFrom(_, _, _)
StreamFrom(fs, size, pos) ==
    LET r == TankIterator_next(fs, size, pos)
    IN  IF r.some THEN <<[pt |-> r.pt, color |-> r.color]>>
                       \o StreamFrom(fs, size, r.position)
        ELSE <<>>

\* A fresh stream drained to completion.
PixelStream(fs, size) == StreamFrom(fs, size, TankIterator_new)

\* The cursor of a stream once next() has returned None, from cursor pos.
RECURSIVE CursorAtEnd(_, _, _)
CursorAtEnd(fs, size, pos) ==
    LET r == TankIterator_next(fs, size, pos)
    IN  IF r.some THEN CursorAtEnd(fs, size, r.position) ELSE r.position

----------------------------------------------------------------------------
(* main: the run loop                                                      *)

ScreenPts == {Point(x, y) : x \in 0..(ScreenW - 1), y \in 0..(ScreenH - 1)}

NoProbe == [kind |-> "none"]

Init ==
    /\ pc = "clear"
    /\ lcd = [p \in ScreenPts |-> 0]
    /\ fish = <<>>
    /\ rng = 0
    /\ position = Point(0, 0)
    /\ probe = NoProbe

\* lcd.clear(rgb565(BACKGROUND)), main.rs:323
Clear ==
    /\ pc = "clear"
    /\ lcd' = [p \in ScreenPts |-> rgb565(BACKGROUND)]
    /\ pc' = "new"
    /\ UNCHANGED <<fish, rng, position, probe>>

\* FishTank::new(lcd.size(), seed), main.rs:325
New ==
    /\ pc = "new"
    /\ \E checks \in BOOLEAN :
         \E o \in FishTank_new(LOOP_FISH, Screen, SPRITE_DATA, checks, <<>>) :
            /\ fish' = o.fish
            /\ rng' = Advance(0, Len(o.draws))
            /\ pc' = IF o.panic THEN "halt" ELSE "iter"
    /\ UNCHANGED <<lcd, position, probe>>

\* TankIterator::new(&fish_tank), main.rs:328
Iter ==
    /\ pc = "iter"
    /\ position' = TankIterator_new
    /\ pc' = "draw"
    /\ UNCHANGED <<lcd, fish, rng, probe>>

\* A draw pass whose next() also moves the animation on: every fish's phase
\* advances with each pixel asked for.
DrawAnimating ==
    /\ pc = "draw"
    /\ LET r == TankIterator_next(fish, Screen, position)
       IN  /\ position' = r.position
           /\ lcd' = IF r.some THEN [lcd EXCEPT ![r.pt] = r.color] ELSE lcd
           /\ pc' = IF r.panic THEN "halt" ELSE IF r.some THEN "draw" ELSE "swim"
    /\ fish' = [i \in DOMAIN fish |->
                  [fish[i] EXCEPT !.animation =
                      (fish[i].animation + 1) % (NUM_FRAMES * ANIMATION_SPEED)]]
    /\ UNCHANGED <<rng, probe>>

\* A draw pass that returns to the loop after the stream's first item.
DrawOnePixel ==
    /\ pc = "draw"
    /\ LET r == TankIterator_next(fish, Screen, position)
       IN  /\ position' = r.position
           /\ lcd' = IF r.some THEN [lcd EXCEPT ![r.pt] = r.color] ELSE lcd
           /\ pc' = IF r.panic THEN "halt" ELSE "swim"
    /\ UNCHANGED <<fish, rng, probe>>

\* One step of lcd.draw_iter: it asks the stream for its next pixel and writes
\* it to the frame memory, or returns when the stream has ended.
Draw ==
    /\ pc = "draw"
    /\ LET r == TankIterator_next(fish, Screen, position)
       IN  /\ position' = r.position
           /\ lcd' = IF r.some THEN [lcd EXCEPT ![r.pt] = r.color] ELSE lcd
           /\ pc' = IF r.panic THEN "halt" ELSE IF r.some THEN "draw" ELSE "swim"
    /\ UNCHANGED <<fish, rng, probe>>

\* fish_tank.swim(), main.rs:329
Swim ==
    /\ pc = "swim"
    /\ \E o \in FishTank_swim(fish, Screen, <<>>) :
          /\ fish' = o.fish
          /\ rng' = Advance(rng, Len(o.draws))
          /\ pc' = IF o.panic THEN "halt" ELSE "iter"
    /\ UNCHANGED <<lcd, position, probe>>

Next == Clear \/ New \/ Iter \/ Draw \/ Swim

Spec == Init /\ [][Next]_vars

----------------------------------------------------------------------------
(* Claims about the run loop (Spec)                                        *)

\* The color the compositor gives at p: the sprite color where the sample is
\* opaque, the background color otherwise.
Composite(fs, p) ==
    LET v == FishTank_get_point(fs, p)
    IN  IF v.tag = "Opaque" THEN v.c ELSE BACKGROUND

\* C1: after every completed draw pass (the stream has ended and swim is
\* next) every coordinate of the display shows the color the compositor gives
\* for the current tank: no stale pixel of an earlier position, frame,
\* direction or pre-respawn place remains.
C1_DisplayShowsTank ==
    pc = "swim" => \A p \in ScreenPts : lcd[p] = Composite(fish, p)

\* C1's case: a draw pass has completed on a fish that swims left, is partly
\* past the left edge, shows its second frame (one pixel transparent), and
\* the display holds a sprite pixel of it.
C1_Witness ==
    /\ pc = "swim"
    /\ fish[0].direction = "Left"
    /\ fish[0].upper_left.x = -2
    /\ fish[0].animation \div ANIMATION_SPEED = 1
    /\ \E p \in ScreenPts : lcd[p] = 63488

\* The cursor of a stream that has returned None.
Drained == position = Point(0, ScreenH)

\* C12: the display is painted with the background color once, in the first
\* step, and never as a whole again (afterwards it changes only point by
\* point inside a draw pass); the loop then alternates a draw pass and a swim
\* tick, the draw first; a draw pass starts with a fresh stream and ends only
\* when the stream is drained; a swim tick happens only on a drained stream.
C12_RunLoopOrder ==
    [][ /\ pc = "clear" => /\ pc' = "new"
                           /\ \A p \in ScreenPts : lcd'[p] = rgb565(BACKGROUND)
        /\ pc # "clear" => pc' # "clear"
        /\ (pc # "clear" /\ lcd' # lcd) =>
              /\ pc = "draw"
              /\ Cardinality({p \in ScreenPts : lcd'[p] # lcd[p]}) = 1
        /\ pc = "new" => (pc' \in {"iter", "halt"} /\ lcd' = lcd)
        /\ pc = "iter" => (pc' = "draw" /\ position' = Point(0, 0) /\ fish' = fish)
        /\ pc = "draw" => /\ pc' \in {"draw", "swim", "halt"}
                          /\ fish' = fish
                          /\ pc' = "swim" => Drained'
        /\ pc = "swim" => /\ Drained
                          /\ pc' \in {"iter", "halt"}
      ]_vars

\* C12's case: a draw pass has put a sprite pixel on the display, a swim tick
\* has followed it, and the next draw pass is about to start.
C12_Witness ==
    /\ pc = "iter"
    /\ Drained
    /\ \E p \in ScreenPts : lcd[p] # rgb565(BACKGROUND)

\* C16: building a pixel stream and calling next() leaves every fish's
\* position, direction and phase and the generator as they were; the tank and
\* the generator change only inside FishTank::new and swim.
C16_DrawLeavesTank ==
    [][ /\ (pc = "iter" \/ pc = "draw") => (fish' = fish /\ rng' = rng)
        /\ (fish' # fish \/ rng' # rng) => (pc = "new" \/ pc = "swim")
      ]_vars

\* C16's case: a draw pass is under way on a tank that has swum (its
\* generator has been drawn from since construction): the stream has passed
\* the first row and has put a sprite pixel on the display.
C16_Witness ==
    /\ pc = "draw"
    /\ position.y >= 1
    /\ rng # 0
    /\ \E p \in ScreenPts : lcd[p] # rgb565(BACKGROUND) /\ p.y < position.y

\* C17: in every state from FishTank::new on, through any number of swims
\* and draw passes, every fish's phase is in [0, NUM_FRAMES *
\* ANIMATION_SPEED), so the frame index phase / ANIMATION_SPEED is in
\* [0, NUM_FRAMES) and names a frame of the fish's sprite; no sample has
\* indexed a frame that is not there (the program has not stopped).
C17_PhaseInRange ==
    /\ pc # "halt"
    /\ pc \notin {"clear", "new"} =>
          \A i \in DOMAIN fish :
              /\ fish[i].animation >= 0
              /\ fish[i].animation < NUM_FRAMES * ANIMATION_SPEED
              /\ fish[i].animation \div ANIMATION_SPEED < NUM_FRAMES
              /\ (fish[i].animation \div ANIMATION_SPEED) + 1
                    \in DOMAIN fish[i].fish_type.frames

\* C17's case: a fish at the last phase before the wrap is being drawn, and
\* a pixel of its last frame is on the display.
C17_Witness ==
    /\ pc = "draw"
    /\ fish[0].animation = NUM_FRAMES * ANIMATION_SPEED - 1
    /\ \E p \in ScreenPts : lcd[p] = rgb565(65504)

----------------------------------------------------------------------------
(* SpecPure: the pure functions applied to inputs drawn from bounded sets.  *)
(* A probe holds the input; its action applies the function and stores the *)
(* result.                                                                 *)

\* How far past the screen and past a sprite the probed positions reach.
Reach == 2

SPRITE_WORDS == as_slice_of_u16(SPRITE_DATA)
Sprites == {make_sprite(n, SPRITE_WORDS, TRUE) : n \in 0..(NUM_SPRITES - 1)}

\* on_screen: fish of either species anywhere up to Reach beyond the
\* positions that touch the screen.
OnScreenInputs ==
    { [kind |-> "on_screen", done |-> FALSE, out |-> FALSE,
       f |-> [Fish_new(sp) EXCEPT !.upper_left = Point(x, y)]]
      : sp \in Sprites,
        x \in (-(ScreenW + Reach))..(ScreenW + Reach),
        y \in (-(ScreenH + Reach))..(ScreenH + Reach) }

\* Sprite::get_point: every sprite and frame, points up to Reach around it.
SampleInputs ==
    UNION { { [kind |-> "sample", done |-> FALSE, out |-> OutOfRange,
               sprite |-> sp, pt |-> Point(x, y), frame |-> fr]
              : fr \in 0..(NUM_FRAMES - 1),
                x \in (-Reach)..(sp.size.width + FUDGE_FACTOR + Reach),
                y \in (-Reach)..(sp.size.height + FUDGE_FACTOR + Reach) }
            : sp \in Sprites }

\* make_sprite: the fixture with the header of sprite 0 or 1 overwritten, or
\* cut short; sprite numbers inside and past the headers; both builds.
HeaderSizes == {513, 514, 0, 2, 516, 65535}
HeaderOffsets == {8, 22, 24, 25, 65534, 65535}
WithHeader(data, n, wh, o1, o2, o3) ==
    [i \in 1..Len(data) |->
        IF i = 4 * n + 1 THEN wh
        ELSE IF i = 4 * n + 2 THEN o1
        ELSE IF i = 4 * n + 3 THEN o2
        ELSE IF i = 4 * n + 4 THEN o3
        ELSE data[i]]
DecodeBlobs ==
    { WithHeader(SPRITE_WORDS, n, wh, o1, o2, o3)
      : n \in 0..1, wh \in HeaderSizes,
        <<o1, o2, o3>> \in { t \in HeaderOffsets \X HeaderOffsets \X HeaderOffsets :
                               t[1] = 8 \/ t[2] = 8 \/ t[3] = 8 } }
    \cup { SubSeq(SPRITE_WORDS, 1, k) : k \in {0, 1, 3, 4, 6, 9} }
DecodeInputs ==
    { [kind |-> "decode", done |-> FALSE, out |-> NoSprite,
       data |-> d, num |-> n, checks |-> c]
      : d \in DecodeBlobs, n \in {0, 1, 2, 5}, c \in BOOLEAN }

\* A fish of tank slot i, its species i % NUM_SPRITES as FishTank::new gives
\* it (main.rs:230), at a position, direction and phase.
FishAt(i, pos, dir, a) ==
    [Fish_new(make_sprite(i % NUM_SPRITES, SPRITE_WORDS, TRUE))
        EXCEPT !.upper_left = pos, !.direction = dir, !.animation = a]

\* FishTank::get_point and the pixel stream: tanks of NUM_FISH fish, the
\* first anywhere up to Reach from the screen's corner, the others together
\* on the diagonal below the corner, so that boxes overlap, hang over the
\* screen's edge and leave screen points uncovered; every direction and
\* phase.
ComposeInputs ==
    { [kind |-> "compose", done |-> FALSE,
       out |-> [p \in ScreenPts |-> OutOfRange], stream |-> <<>>,
       cursor |-> TankIterator_new, again |-> TRUE,
       tank |-> [i \in 0..(NUM_FISH - 1) |->
                    IF i = 0 THEN FishAt(0, Point(x, y), d0, a0)
                    ELSE FishAt(i, Point(k, k), d1, a1)]]
      : x \in (-Reach)..Reach, y \in (-Reach)..Reach, k \in 0..(Reach - 1),
        d0 \in {"Left", "Right"}, d1 \in {"Left", "Right"},
        a0 \in 0..(NUM_FRAMES * ANIMATION_SPEED - 1),
        a1 \in 0..(NUM_FRAMES * ANIMATION_SPEED - 1) }

\* Fish::get_point facing either way: fish of both species, every phase,
\* up to Reach from the origin; left and right are the samples of the fish
\* facing Left and facing Right over its bounding box, by box-relative
\* column and row.
BoxCols(f) == 0..(f.size.width - 1)
BoxRows(f) == 0..(f.size.height - 1)
MirrorInputs ==
    { [kind |-> "mirror", done |-> FALSE,
       f |-> FishAt(i, Point(x, y), "Right", a),
       left |-> <<>>, right |-> <<>>]
      : i \in 0..(NUM_SPRITES - 1),
        x \in (-Reach)..Reach, y \in (-Reach)..Reach,
        a \in 0..(NUM_FRAMES * ANIMATION_SPEED - 1) }

InitPure ==
    /\ pc = "probe"
    /\ lcd = [p \in ScreenPts |-> 0]
    /\ fish = <<>>
    /\ rng = 0
    /\ position = Point(0, 0)
    /\ probe \in OnScreenInputs \cup SampleInputs \cup DecodeInputs \cup ComposeInputs
                  \cup MirrorInputs

OnScreenApply ==
    /\ pc = "probe" /\ probe.kind = "on_screen" /\ ~probe.done
    /\ probe' = [probe EXCEPT !.done = TRUE, !.out = Fish_on_screen(probe.f, Screen)]
    /\ UNCHANGED <<pc, lcd, fish, rng, position>>

SampleApply ==
    /\ pc = "probe" /\ probe.kind = "sample" /\ ~probe.done
    /\ probe' = [probe EXCEPT !.done = TRUE,
                              !.out = Sprite_get_point(probe.sprite, probe.pt, probe.frame)]
    /\ UNCHANGED <<pc, lcd, fish, rng, position>>

DecodeApply ==
    /\ pc = "probe" /\ probe.kind = "decode" /\ ~probe.done
    /\ probe' = [probe EXCEPT !.done = TRUE,
                              !.out = make_sprite(probe.num, probe.data, probe.checks)]
    /\ UNCHANGED <<pc, lcd, fish, rng, position>>

\* The tank is asked for every point TankIterator::next asks it for
\* (main.rs:277), and a TankIterator over it is drained: cursor is where the
\* stream stands after its first None, and again tells whether one more
\* next() from there returns a pixel or moves the cursor.
ComposeApply ==
    /\ pc = "probe" /\ probe.kind = "compose" /\ ~probe.done
    /\ LET end == CursorAtEnd(probe.tank, Screen, TankIterator_new)
           more == TankIterator_next(probe.tank, Screen, end)
       IN  probe' = [probe EXCEPT
                        !.done = TRUE,
                        !.out = [p \in ScreenPts |-> FishTank_get_point(probe.tank, p)],
                        !.stream = PixelStream(probe.tank, Screen),
                        !.cursor = end,
                        !.again = more.some \/ more.position # end]
    /\ UNCHANGED <<pc, lcd, fish, rng, position>>

\* The fish is sampled over its whole bounding box facing Left and facing
\* Right.
BoxSamples(f) ==
    [c \in BoxCols(f), r \in BoxRows(f) |->
        Fish_get_point(f, Point(f.upper_left.x + c, f.upper_left.y + r))]
MirrorApply ==
    /\ pc = "probe" /\ probe.kind = "mirror" /\ ~probe.done
    /\ probe' = [probe EXCEPT
                    !.done = TRUE,
                    !.left = BoxSamples([probe.f EXCEPT !.direction = "Left"]),
                    !.right = BoxSamples([probe.f EXCEPT !.direction = "Right"])]
    /\ UNCHANGED <<pc, lcd, fish, rng, position>>

NextPure == OnScreenApply \/ SampleApply \/ DecodeApply \/ ComposeApply \/ MirrorApply

SpecPure == InitPure /\ [][NextPure]_vars

\* C6: on_screen is the inclusive overlap test: true exactly when
\* -width <= x <= screen.width and -height <= y <= screen.height.  A box whose
\* right edge is at 0 or whose left edge is at screen.width is on screen; one
\* pixel further out it is off screen.
C6_OnScreenInclusive ==
    (probe.kind = "on_screen" /\ probe.done) =>
        LET f == probe.f
            x == f.upper_left.x
            y == f.upper_left.y
        IN  /\ probe.out <=> /\ -f.size.width <= x /\ x <= ScreenW
                             /\ -f.size.height <= y /\ y <= ScreenH
            /\ (y \in 0..ScreenH /\ x + f.size.width = 0) => probe.out
            /\ (y \in 0..ScreenH /\ x = ScreenW) => probe.out
            /\ (x + f.size.width = -1 \/ x = ScreenW + 1) => ~probe.out

\* C6's case: the box's right edge is exactly at 0 and the test has said yes.
C6_Witness ==
    /\ probe.kind = "on_screen" /\ probe.done
    /\ probe.f.upper_left.x + probe.f.size.width = 0
    /\ probe.f.upper_left.y = 0
    /\ probe.out

\* C9: Sprite.sample is Transparent for every point that, the margin
\* subtracted from both axes, lies outside [0,width) x [0,height); for a point
\* inside it reads the frame's word at x + y*width, which is one of the
\* frame's width*height words, and gives Transparent for 0xDEAD and
\* Opaque(word) otherwise.
C9_SpriteSample ==
    (probe.kind = "sample" /\ probe.done) =>
        LET sp == probe.sprite
            sx == probe.pt.x - 1
            sy == probe.pt.y - 1
            frame == sp.frames[probe.frame + 1]
            at == sx + sy * sp.size.width
        IN  IF sx \in 0..(sp.size.width - 1) /\ sy \in 0..(sp.size.height - 1)
            THEN /\ at < sp.size.width * sp.size.height
                 /\ at < Len(frame)
                 /\ probe.out = IF frame[at + 1] = 57005 THEN Transparent
                                ELSE Opaque(frame[at + 1])
            ELSE probe.out = Transparent

\* C9's case: a point inside the sprite whose word is the sentinel has been
\* sampled.
C9_Witness ==
    /\ probe.kind = "sample" /\ probe.done
    /\ probe.sprite.size = Size(2, 2)
    /\ probe.pt = Point(1, 1) /\ probe.frame = 1
    /\ probe.out = Transparent

\* C10: decoding sprite i takes width = high byte and height = low byte of
\* header word 4*i and, for each of the three frames, yields exactly the
\* width*height words that start at the frame's header offset and lie wholly
\* inside the word array; or it fails fatally.  No frame of another length or
\* place is returned, also when offset + width*height does not fit 16 bits or
\* runs past the end of the blob.
C10_DecodeExactOrFatal ==
    (probe.kind = "decode" /\ probe.done /\ probe.out.ok) =>
        LET d == probe.data
            h == 4 * probe.num
            w == d[h + 1] \div 256
            ht == d[h + 1] % 256
        IN  /\ h + 4 <= Len(d)
            /\ probe.out.size = Size(w, ht)
            /\ DOMAIN probe.out.frames = 1..3
            /\ \A f \in 1..3 :
                  LET off == d[h + 1 + f]
                  IN  /\ off + w * ht <= Len(d)
                      /\ Len(probe.out.frames[f]) = w * ht
                      /\ \A k \in 1..(w * ht) : probe.out.frames[f][k] = d[off + k]

\* C10's case: in the build that does not check overflow, a frame's offset
\* plus width*height does not fit 16 bits, and the decode has failed.
C10_Witness ==
    /\ probe.kind = "decode" /\ probe.done /\ ~probe.checks
    /\ probe.num = 0 /\ Len(probe.data) >= 4
    /\ probe.data[1] = 513
    /\ probe.data[3] = 65535
    /\ ~probe.out.ok

\* p lies in the bounding box of fish f.
InBox(f, p) ==
    /\ f.upper_left.x <= p.x /\ p.x < f.upper_left.x + f.size.width
    /\ f.upper_left.y <= p.y /\ p.y < f.upper_left.y + f.size.height

Composed == probe.kind = "compose" /\ probe.done

\* C2: the coordinates one stream emits, drained to completion, are exactly
\* the union of the fish's bounding boxes cut to the screen rectangle; no
\* coordinate outside every box is emitted.
C2_StreamCoversBoxes ==
    Composed =>
        {probe.stream[k].pt : k \in 1..Len(probe.stream)}
            = {p \in ScreenPts : \E i \in DOMAIN probe.tank : InBox(probe.tank[i], p)}

\* C2's case: one fish hangs over the left edge, the other does not, some
\* screen coordinate is in no box, and the stream has emitted something.
C2_Witness ==
    /\ Composed
    /\ probe.tank[0].upper_left.x = -1 /\ probe.tank[1].upper_left.x = 1
    /\ \E p \in ScreenPts : \A i \in DOMAIN probe.tank : ~InBox(probe.tank[i], p)
    /\ Len(probe.stream) > 0

\* C3: whenever some fish is Opaque at P, the tank's sample is Opaque with
\* the color of the lowest-indexed fish that is Opaque at P, whatever the
\* fish after it and the Transparent fish before it yield.
C3_LowestOpaqueWins ==
    Composed =>
        \A p \in ScreenPts :
            LET op == {i \in DOMAIN probe.tank :
                          Fish_get_point(probe.tank[i], p).tag = "Opaque"}
            IN  op # {} =>
                  LET low == CHOOSE i \in op : \A j \in op : i <= j
                  IN  probe.out[p] = Opaque(Fish_get_point(probe.tank[low], p).c)

\* C3's case: both fish are Opaque at one point, with different colors, and
\* the tank has been sampled there.
C3_Witness ==
    /\ Composed
    /\ \E p \in ScreenPts :
          /\ Fish_get_point(probe.tank[0], p).tag = "Opaque"
          /\ Fish_get_point(probe.tank[1], p).tag = "Opaque"
          /\ Fish_get_point(probe.tank[0], p).c # Fish_get_point(probe.tank[1], p).c

\* C4: when no fish is Opaque at P, the tank's sample is Transparent exactly
\* when some fish's bounding box contains P and OutOfRange exactly when none
\* does.
C4_TransparentOrOutOfRange ==
    Composed =>
        \A p \in ScreenPts :
            (\A i \in DOMAIN probe.tank : Fish_get_point(probe.tank[i], p).tag # "Opaque") =>
                LET boxed == \E i \in DOMAIN probe.tank : InBox(probe.tank[i], p)
                IN  /\ probe.out[p].tag = "Transparent" <=> boxed
                    /\ probe.out[p].tag = "OutOfRange" <=> ~boxed

\* C4's case: fish 0 is Transparent at a point that fish 1, asked after it,
\* has out of range, and the tank's sample there is Transparent.
C4_Witness ==
    /\ Composed
    /\ \E p \in ScreenPts :
          /\ Fish_get_point(probe.tank[0], p).tag = "Transparent"
          /\ Fish_get_point(probe.tank[1], p).tag = "OutOfRange"
          /\ probe.out[p].tag = "Transparent"

\* a comes before b in row-major order.
RowMajorBefore(a, b) == a.y < b.y \/ (a.y = b.y /\ a.x < b.x)

\* C11: the pixels of one stream come in strictly increasing row-major order
\* (so each coordinate at most once), all inside the screen rectangle; the
\* stream ends with the cursor no more than width*height advances from the
\* origin (it has advanced once per screen point), and a later next() returns
\* end-of-stream again and leaves the cursor where it is.
C11_StreamFiniteRowMajor ==
    Composed =>
        /\ \A k \in 1..Len(probe.stream) : probe.stream[k].pt \in ScreenPts
        /\ \A k \in 1..(Len(probe.stream) - 1) :
              RowMajorBefore(probe.stream[k].pt, probe.stream[k + 1].pt)
        /\ Len(probe.stream) <= ScreenW * ScreenH
        /\ probe.cursor.x \in 0..(ScreenW - 1)
        /\ probe.cursor.y * ScreenW + probe.cursor.x <= ScreenW * ScreenH
        /\ ~probe.again

\* C11's case: a drained stream gave pixels of more than one row, passed
\* over an uncovered point between two of its pixels, and has ended.
C11_Witness ==
    /\ Composed
    /\ \E k \in 1..(Len(probe.stream) - 1) :
          /\ probe.stream[k].pt.y < probe.stream[k + 1].pt.y
          /\ probe.stream[k].pt.x < ScreenW - 1
    /\ probe.cursor = Point(0, ScreenH)

\* C14: the sample of a fish facing Left at box-relative column c is the
\* sample of the same fish facing Right at column bounding_width - 1 - c, for
\* every position, phase, column and row of the box: the Left image is the
\* mirror image of the Right one.  The margin is the same on both sides:
\* the outermost columns are Transparent facing either way.
C14_LeftMirrorsRight ==
    (probe.kind = "mirror" /\ probe.done) =>
        LET f == probe.f
            w == f.size.width
        IN  /\ \A c \in BoxCols(f), r \in BoxRows(f) :
                  probe.left[c, r] = probe.right[w - 1 - c, r]
            /\ \A r \in BoxRows(f) :
                  \A c \in (0..(FUDGE_FACTOR - 1)) \cup ((w - FUDGE_FACTOR)..(w - 1)) :
                      /\ probe.left[c, r] = Transparent
                      /\ probe.right[c, r] = Transparent

\* C14's case: a fish sampled both ways whose Right image is not its own
\* mirror image: facing Left it shows at its second column the color it
\* shows at its third column facing Right, and another color there itself.
C14_Witness ==
    /\ probe.kind = "mirror" /\ probe.done
    /\ probe.left[1, 1].tag = "Opaque"
    /\ probe.left[1, 1] = probe.right[2, 1]
    /\ probe.left[1, 1] # probe.right[1, 1]

----------------------------------------------------------------------------
(* SpecTank: a tank of NUM_FISH fish is built and swims one tick.  A twin   *)
(* tank is built and stepped beside it from the same seed: its generator    *)
(* yields the stream the first tank's generator yielded.                   *)

InitTank ==
    /\ pc = "tank_new"
    /\ lcd = [p \in ScreenPts |-> 0]
    /\ fish = <<>>
    /\ rng = 0
    /\ position = Point(0, 0)
    /\ probe = [kind |-> "tank", before |-> <<>>, draws |-> <<>>,
                twin |-> <<>>, twin_rng |-> 0, twin_draws |-> <<>>]

\* FishTank::new(screen, seed), twice with the same seed.
TankNew ==
    /\ pc = "tank_new"
    /\ \E checks \in BOOLEAN :
         \E o \in FishTank_new(NUM_FISH, Screen, SPRITE_DATA, checks, <<>>) :
         \E t \in FishTank_new(NUM_FISH, Screen, SPRITE_DATA, checks, o.draws) :
            /\ fish' = o.fish
            /\ rng' = Advance(0, Len(o.draws))
            /\ probe' = [probe EXCEPT !.before = fish, !.draws = o.draws,
                                      !.twin = t.fish,
                                      !.twin_rng = Advance(0, Len(t.draws)),
                                      !.twin_draws = t.draws]
            /\ pc' = IF o.panic \/ t.panic THEN "halt" ELSE "tank_swim"
    /\ UNCHANGED <<lcd, position>>

\* swim() on the tank and on its twin.
TankSwim ==
    /\ pc = "tank_swim"
    /\ \E o \in FishTank_swim(fish, Screen, <<>>) :
       \E t \in FishTank_swim(probe.twin, Screen, o.draws) :
            /\ fish' = o.fish
            /\ rng' = Advance(rng, Len(o.draws))
            /\ probe' = [probe EXCEPT !.before = fish, !.draws = o.draws,
                                      !.twin = t.fish,
                                      !.twin_rng = Advance(probe.twin_rng, Len(t.draws)),
                                      !.twin_draws = t.draws]
            /\ pc' = IF o.panic \/ t.panic THEN "halt" ELSE "tank_done"
    /\ UNCHANGED <<lcd, position>>

NextTank == TankNew \/ TankSwim

SpecTank == InitTank /\ [][NextTank]_vars

\* The log splits into one part per fish, fish i's part before fish i+1's,
\* each part being the draws that took that fish from `from` to `to`.
RECURSIVE SwamInOrder(_, _, _, _)
SwamInOrder(i, from, to, log) ==
    IF i \notin DOMAIN from THEN log = <<>>
    ELSE \E k \in 0..Len(log) :
            /\ Outcome(to[i], SubSeq(log, 1, k), FALSE) \in Fish_swim(from[i], Screen, <<>>)
            /\ SwamInOrder(i + 1, from, to, SubSeq(log, k + 1, Len(log)))

\* C7: two tanks built from the same seed (fed the same stream of draws) and
\* stepped the same number of times have the same position, direction and
\* phase for every fish and the same generator state after every step, their
\* generators having been asked the same draws; and a swim advances the fish
\* in index order, each fish taking its draws from the one generator after
\* the fish before it.
C7_SameSeedSameTank ==
    probe.kind = "tank" =>
        /\ fish = probe.twin
        /\ rng = probe.twin_rng
        /\ probe.draws = probe.twin_draws
        /\ pc = "tank_done" =>
              /\ SwamInOrder(0, probe.before, fish, probe.draws)
              /\ rng = Advance(Advance(0, 4 * NUM_FISH), Len(probe.draws))

\* C7's case: both tanks have swum a tick in which fish 0 jittered and fish 1
\* did not, so that the two fish took different numbers of draws.
C7_Witness ==
    /\ pc = "tank_done" /\ probe.kind = "tank"
    /\ Len(probe.draws) = 5
    /\ probe.draws[2] = <<"jitter", 1, 8, 1>>
    /\ probe.draws[5] = <<"jitter", 1, 8, 0>>
    /\ probe.twin # probe.before

----------------------------------------------------------------------------
(* SpecFish: the life of one fish.  It is built as FishTank::new builds the *)
(* fish of a slot and then swims tick after tick.  The probe keeps the fish *)
(* before the last tick, the draws of that tick, and a window of ticks      *)
(* without respawn: how many there were (run) and the phase before them     *)
(* (start).  The generator is the tank's, not the fish's (SpecTank follows  *)
(* it): here what it yielded is in the probe's draws.                      *)

\* The ticks of one turn of the animation.
PhaseCycle == NUM_FRAMES * ANIMATION_SPEED

\* Fish::randomize was called: it is the one place a phase is drawn.
Respawned(draws) == \E k \in 1..Len(draws) : draws[k][1] = "phase"

InitFish ==
    /\ pc = "fish_new"
    /\ lcd = [p \in ScreenPts |-> 0]
    /\ fish = <<>>
    /\ rng = 0
    /\ position = Point(0, 0)
    /\ probe = [kind |-> "fish", ticked |-> FALSE, before |-> <<>>, draws |-> <<>>,
                run |-> 0, start |-> 0, slot |-> 0]

\* The slots a fish is built for: one more than there are species, so that
\* the last slot takes the first species again.
Slots == 0..NUM_SPRITES

\* The body of FishTank::new's loop for one slot (main.rs:229-232).  The
\* probe keeps the slot until the fish's first tick.
FishNew ==
    /\ pc = "fish_new"
    /\ \E i \in Slots, checks \in BOOLEAN :
         \E o \in NewFish(i, Screen, SPRITE_WORDS, checks, <<>>) :
            /\ fish' = [j \in 0..0 |-> o.fish]
            /\ probe' = [probe EXCEPT !.draws = o.draws, !.start = o.fish.animation,
                                      !.slot = i]
            /\ pc' = IF o.panic THEN "halt" ELSE "fish_swim"
    /\ UNCHANGED <<lcd, rng, position>>

\* Fish::swim, one tick.
FishSwim ==
    /\ pc = "fish_swim"
    /\ \E o \in Fish_swim(fish[0], Screen, <<>>) :
            /\ fish' = [fish EXCEPT ![0] = o.fish]
            /\ probe' = [probe EXCEPT
                            !.ticked = TRUE, !.before = fish[0], !.draws = o.draws,
                            !.slot = 0,
                            !.run = IF Respawned(o.draws) THEN 0
                                    ELSE IF probe.run = PhaseCycle THEN 1
                                    ELSE probe.run + 1,
                            !.start = IF Respawned(o.draws) THEN o.fish.animation
                                      ELSE IF probe.run = PhaseCycle THEN fish[0].animation
                                      ELSE probe.start]
            /\ pc' = IF o.panic THEN "halt" ELSE "fish_swim"
    /\ UNCHANGED <<lcd, rng, position>>

NextFish == FishNew \/ FishSwim

SpecFish == InitFish /\ [][NextFish]_vars

Ticked == probe.kind = "fish" /\ probe.ticked /\ pc = "fish_swim"

\* The position the last tick's update gave the fish, from the fish before
\* the tick and the tick's first draws.
UpdatedX ==
    probe.before.upper_left.x
        + (IF probe.draws[1][4] = 1
           THEN (IF probe.before.direction = "Left" THEN -1 ELSE 1)
           ELSE 0)
UpdatedY ==
    probe.before.upper_left.y + (IF probe.draws[2][4] = 1 THEN probe.draws[3][4] ELSE 0)

\* The box of size sz at (x, y) has left the screen by more than touching it.
OffScreen(x, y, sz) ==
    \/ x > ScreenW \/ x + sz.width < 0
    \/ y > ScreenH \/ y + sz.height < 0

\* C5: when a tick's position update leaves the fish off screen, swim
\* re-randomizes it before returning: it is then at x = screen.width facing
\* Left or at x = -bounding width facing Right, with y in
\* [0, screen.height - bounding height); when the updated position is on
\* screen nothing is re-randomized and the fish is where the update put it;
\* after every swim the fish is on screen.
C5_RespawnWhenOffScreen ==
    Ticked =>
        LET f == fish[0]
            off == OffScreen(UpdatedX, UpdatedY, f.size)
        IN  /\ ~OffScreen(f.upper_left.x, f.upper_left.y, f.size)
            /\ off <=> Respawned(probe.draws)
            /\ off =>
                  /\ f.direction = "Left" => f.upper_left.x = ScreenW
                  /\ f.direction = "Right" => f.upper_left.x = -f.size.width
                  /\ f.upper_left.y \in 0..(ScreenH - f.size.height - 1)
            /\ ~off =>
                  /\ f.upper_left = Point(UpdatedX, UpdatedY)
                  /\ f.direction = probe.before.direction

\* C5's case: a fish facing Right stepped past the right edge and has come
\* back at the right edge facing Left.
C5_Witness ==
    /\ Ticked
    /\ probe.before.direction = "Right"
    /\ UpdatedX = ScreenW + 1
    /\ fish[0].direction = "Left" /\ fish[0].upper_left.x = ScreenW

\* C8 as stated: a tick without respawn advances the phase by 1, wrapping to
\* 0 at NUM_FRAMES * ANIMATION_SPEED, and after 6 consecutive ticks without
\* respawn the phase is 0.
C8_PhaseZeroAfterCycle ==
    Ticked =>
        /\ ~Respawned(probe.draws) =>
              fish[0].animation = (probe.before.animation + 1) % PhaseCycle
        /\ probe.run = PhaseCycle => fish[0].animation = 0

\* C8, amended: a tick without respawn advances the phase by exactly 1,
\* wrapping to 0 at NUM_FRAMES * ANIMATION_SPEED (a respawn leaves the phase
\* it drew instead), so after 6 consecutive ticks without respawn the phase
\* is again what it was before them: 0 when it was 0.
C8_PhaseReturnsAfterCycle ==
    Ticked =>
        /\ fish[0].animation \in 0..(PhaseCycle - 1)
        /\ ~Respawned(probe.draws) =>
              /\ probe.before.animation < PhaseCycle - 1
                    => fish[0].animation = probe.before.animation + 1
              /\ probe.before.animation = PhaseCycle - 1 => fish[0].animation = 0
        /\ Respawned(probe.draws) =>
              \E k \in 1..Len(probe.draws) :
                  /\ probe.draws[k][1] = "phase"
                  /\ fish[0].animation = probe.draws[k][4]
        /\ probe.run = PhaseCycle =>
              /\ fish[0].animation = probe.start
              /\ probe.start = 0 => fish[0].animation = 0

\* C8's case: six ticks without respawn have passed since the phase was 3.
C8_Witness ==
    /\ Ticked
    /\ probe.run = PhaseCycle /\ probe.start = 3
    /\ fish[0].animation = 3

\* C13: in a tick that does not respawn, x stays or moves exactly one pixel
\* the way the fish faces (+1 facing Right, -1 facing Left), y changes by -1,
\* 0 or +1, and direction, sprite and bounding size stay as they were; the
\* direction differs from the one before the tick only after a respawn.
C13_StepBound ==
    Ticked =>
        LET f == fish[0]
            b == probe.before
            dx == f.upper_left.x - b.upper_left.x
            dy == f.upper_left.y - b.upper_left.y
        IN  /\ ~Respawned(probe.draws) =>
                  /\ b.direction = "Right" => dx \in {0, 1}
                  /\ b.direction = "Left" => dx \in {0, -1}
                  /\ dy \in {-1, 0, 1}
                  /\ f.direction = b.direction
                  /\ f.fish_type = b.fish_type
                  /\ f.size = b.size
            /\ f.direction # b.direction => Respawned(probe.draws)
            /\ f.fish_type = b.fish_type /\ f.size = b.size

\* C13's case: a fish facing Left has moved one pixel left and one pixel down
\* in a tick without respawn.
C13_Witness ==
    /\ Ticked /\ ~Respawned(probe.draws)
    /\ probe.before.direction = "Left"
    /\ fish[0].upper_left.x = probe.before.upper_left.x - 1
    /\ fish[0].upper_left.y = probe.before.upper_left.y + 1

\* C15: the fish FishTank::new builds for slot i has the sprite of species
\* i mod NUM_SPRITES, a bounding size of the sprite's size plus 2 *
\* FUDGE_FACTOR on each axis, lies wholly inside the screen (x in
\* [0, screen.width - width), y in [0, screen.height - height)) and has its
\* phase in [0, NUM_FRAMES * ANIMATION_SPEED).
C15_BuiltInsideScreen ==
    (probe.kind = "fish" /\ pc = "fish_swim" /\ ~probe.ticked) =>
        LET f == fish[0]
            h == 4 * (probe.slot % NUM_SPRITES)
        IN  /\ f.fish_type.size.width = SPRITE_WORDS[h + 1] \div 256
            /\ f.fish_type.size.height = SPRITE_WORDS[h + 1] % 256
            /\ \A k \in 1..NUM_FRAMES :
                  /\ Len(f.fish_type.frames[k])
                        = f.fish_type.size.width * f.fish_type.size.height
                  /\ \A n \in 1..Len(f.fish_type.frames[k]) :
                        f.fish_type.frames[k][n] = SPRITE_WORDS[SPRITE_WORDS[h + 1 + k] + n]
            /\ f.size.width = f.fish_type.size.width + 2 * FUDGE_FACTOR
            /\ f.size.height = f.fish_type.size.height + 2 * FUDGE_FACTOR
            /\ f.upper_left.x >= 0 /\ f.upper_left.x < ScreenW - f.size.width
            /\ f.upper_left.y >= 0 /\ f.upper_left.y < ScreenH - f.size.height
            /\ f.animation >= 0 /\ f.animation < NUM_FRAMES * ANIMATION_SPEED

\* C15's case: the fish of the slot past the last species has been built: it
\* has the first species' sprite and has drawn Left, which before
\* randomize_x put it at x = screen.width.
C15_Witness ==
    /\ probe.kind = "fish" /\ pc = "fish_swim" /\ ~probe.ticked
    /\ probe.slot = NUM_SPRITES
    /\ fish[0].fish_type.size = Size(2, 1)
    /\ fish[0].direction = "Left"

\* Some screen coordinate lies in the bounding box of f.
Visible(f) == \E p \in ScreenPts : InBox(f, p)

\* C18: a fish that has just been respawned has no screen coordinate in its
\* bounding box (its columns start at screen.width facing Left and end before
\* 0 facing Right), and neither had the fish before the tick that took it off
\* screen: a respawn makes no fish appear or vanish inside the screen.
C18_RespawnUnseen ==
    (Ticked /\ Respawned(probe.draws)) =>
        /\ ~Visible(fish[0])
        /\ fish[0].direction = "Left" => fish[0].upper_left.x >= ScreenW
        /\ fish[0].direction = "Right" =>
              fish[0].upper_left.x + fish[0].size.width <= 0
        /\ ~Visible(probe.before)

\* C18's case: a fish that had drifted up until its box ended at row 0 has
\* jittered once more and been respawned.
C18_Witness ==
    /\ Ticked /\ Respawned(probe.draws)
    /\ probe.before.upper_left.y + probe.before.size.height = 0
    /\ probe.before.upper_left.x \in 0..(ScreenW - 1)
    /\ fish[0].upper_left.y >= 0

----------------------------------------------------------------------------
(* SpecFishFair: the fish's life with the loop running on (main.rs:327 is  *)
(* `loop`, with no exit) and the generator fair to the horizontal step:     *)
(* gen_ratio(3, 4) at main.rs:183 returns true again and again.  The probe  *)
(* tells whether the last tick took the step and whether it respawned the   *)
(* fish.                                                                   *)

InitFair ==
    /\ pc = "fair_new"
    /\ lcd = [p \in ScreenPts |-> 0]
    /\ fish = <<>>
    /\ rng = 0
    /\ position = Point(0, 0)
    /\ probe = [kind |-> "fair", respawned |-> FALSE, stepped |-> 0]

\* The body of FishTank::new's loop for one slot (main.rs:229-232).
FairNew ==
    /\ pc = "fair_new"
    /\ \E i \in Slots, checks \in BOOLEAN :
         \E o \in NewFish(i, Screen, SPRITE_WORDS, checks, <<>>) :
            /\ fish' = [j \in 0..0 |-> o.fish]
            /\ pc' = IF o.panic THEN "halt" ELSE "fair_swim"
    /\ UNCHANGED <<lcd, rng, position, probe>>

\* Fish::swim, one tick in which gen_ratio(3, 4) returns `step`.
FairSwim(step) ==
    /\ pc = "fair_swim"
    /\ \E o \in Fish_swim(fish[0], Screen, << <<"step", 3, 4, step>> >>) :
            /\ fish' = [fish EXCEPT ![0] = o.fish]
            /\ probe' = [probe EXCEPT
                            !.respawned = Respawned(o.draws),
                            !.stepped = o.draws[1][4]]
            /\ pc' = IF o.panic THEN "halt" ELSE "fair_swim"
    /\ UNCHANGED <<lcd, rng, position>>

FairSwimStep == FairSwim(1)
FairSwimStay == FairSwim(0)

NextFair == FairNew \/ FairSwimStep \/ FairSwimStay

SpecFishFair ==
    InitFair /\ [][NextFair]_vars /\ WF_vars(FairNew) /\ WF_vars(FairSwimStep)

\* C19: with the horizontal step taken again and again, the fish leaves the
\* screen and is respawned, and that again and again: it neither stays on
\* screen nor rests at a spawn edge for ever.
C19_RespawnsForever == []<>(pc = "fair_swim" /\ probe.respawned)

\* C19's case: a tick that took the horizontal step has respawned the fish,
\* which now waits at the right spawn edge.
C19_Witness ==
    /\ pc = "fair_swim" /\ probe.kind = "fair"
    /\ probe.respawned /\ probe.stepped = 1
    /\ fish[0].direction = "Left" /\ fish[0].upper_left.x = ScreenW

====
